---- MODULE Spec2Model ----
(***************************************************************************)
(* Model of dataset.py: LMDBDataset (read-only indexed record store) and   *)
(* CUBDataset (four-table alignment, split restriction, grayscale filter,  *)
(* per-access example assembly and batch collation).                       *)
(***************************************************************************)
EXTENDS Integers, Sequences, FiniteSets, TLC

VARIABLES
    root_is_dir,           \* os.path.isdir(root)
    img_path_map,          \* rows of images.txt:             <<id, relative image path>>
    train_test_map,        \* rows of train_test_split.txt:   <<id, split code>>
    img_label_map,         \* rows of image_class_labels.txt: <<id, class label>>
    label_cls_map,         \* rows of classes.txt:            <<class label, class name>>
    image_files,           \* image path      -> [exists, ch, size]
    annotation_files,      \* annotation path -> [exists, lines]
    mode,                  \* self.mode
    transform,             \* self.transform
    cub,                   \* "new" | "built" | "raised"
    images,                \* self.images            (Series: <<id, image path>>)
    text_annotations,      \* self.text_annotations  (Series: <<id, annotation path>>)
    filtered_images,       \* self.filtered_images
    filtered_annotations,  \* self.filtered_annotations
    store,                 \* the LMDB store: key -> [present, ...]
    env,                   \* self.env of LMDBDataset
    length,                \* self.length of LMDBDataset
    result                 \* outcome of the last call

vars == <<root_is_dir, img_path_map, train_test_map, img_label_map, label_cls_map,
          image_files, annotation_files, mode, transform, cub, images,
          text_annotations, filtered_images, filtered_annotations,
          store, env, length, result>>

cubFiles == <<root_is_dir, img_path_map, train_test_map, img_label_map,
              label_cls_map, image_files, annotation_files, mode, transform>>
cubFields == <<cub, images, text_annotations, filtered_images, filtered_annotations>>
lmdbVars == <<store, env, length>>

(***************************************************************************)
(* Bounds of the model and constants of the program.                       *)
(***************************************************************************)
NumIds == 2          \* ids of the alignment tables are 1..NumIds
NumLabels == 2       \* class labels are 1..NumLabels
MaxLines == 2        \* an annotation file has at most MaxLines lines
MaxBatch == 2        \* a batch has at most MaxBatch examples
MaxIndex == 2        \* data keys of the store are str(0)..str(MaxIndex)

TRAIN_CODE == 0
TEST_CODE == 1
LowRes == 128
FullRes == 2 * LowRes

Ids == 1..NumIds
Labels == 1..NumLabels

(***************************************************************************)
(* Generic helpers on tables (sequences of <<key, value>> rows).           *)
(***************************************************************************)
Range(s) == {s[k] : k \in DOMAIN s}

Keys(t) == [k \in DOMAIN t |-> t[k][1]]

Column(t) == [k \in DOMAIN t |-> t[k][2]]

DistinctSeqs(S) ==
    {s \in UNION {[1..n -> S] : n \in 0..Cardinality(S)} :
        \A i, j \in DOMAIN s : i # j => s[i] # s[j]}

Tables(K, V) ==
    UNION {{[k \in DOMAIN ks |-> <<ks[k], vs[k]>>] : vs \in [DOMAIN ks -> V]} :
           ks \in DistinctSeqs(K)}

KeySet(t) == {t[k][1] : k \in DOMAIN t}

HasKey(t, key) == \E k \in DOMAIN t : t[k][1] = key

\* DataFrame/Series .loc[key] for one key: the rows carrying that key, in row order
RowsOf(t, key) == SelectSeq(t, LAMBDA row : row[1] = key)

RECURSIVE Loc(_, _)
\* DataFrame/Series .loc[keys] for a list of keys: keyed lookup, in the keys' order
Loc(t, keys) ==
    IF keys = <<>> THEN <<>>
    ELSE RowsOf(t, Head(keys)) \o Loc(t, Tail(keys))

RECURSIVE MaskSelect(_, _)
\* Index[mask] with a boolean array: positional selection
MaskSelect(index, mask) ==
    IF index = <<>> THEN <<>>
    ELSE (IF Head(mask) THEN <<Head(index)>> ELSE <<>>)
         \o MaskSelect(Tail(index), Tail(mask))

(***************************************************************************)
(* Paths.  A row of images.txt holds "<dir>/<stem>.jpg".                   *)
(***************************************************************************)
RelPath(id) == [dir |-> (id % NumLabels) + 1, stem |-> id, ext |-> "jpg"]

ClassName(label) == <<"class", label>>

\* os.path.join(root, 'images', img_path)
ImagePath(rel) == [top |-> "images", rel |-> rel]

\* os.path.basename(os.path.splitext(img_path)[0])
ImgName(rel) == rel.stem

\* os.path.join(root, 'text_c10', cls_, f'{img_name}.txt')
AnnotationPath(cls_, img_name) ==
    [top |-> "text_c10", cls |-> cls_, file |-> <<img_name, "txt">>]

AllImagePaths == {ImagePath(RelPath(i)) : i \in Ids}

AllAnnotationPaths ==
    {AnnotationPath(ClassName(l), ImgName(RelPath(i))) : l \in Labels, i \in Ids}

(***************************************************************************)
(* CUBDataset.__init__                                                     *)
(***************************************************************************)
Err(name) == [err |-> name, val |-> <<>>]
Ok(v) == [err |-> "", val |-> v]

\* line 89: label_cls_map.loc[img_label_map[1]][1].to_numpy(), re-indexed by
\* the ids of images.txt
ImgClsMap(index, imgLabel, labelCls) ==
    IF \E k \in DOMAIN imgLabel : ~HasKey(labelCls, imgLabel[k][2])
    THEN Err("KeyError")
    ELSE LET names == Column(Loc(labelCls, Column(imgLabel)))
         IN  IF Len(names) # Len(index)
             THEN Err("ValueError")
             ELSE Ok(names)

\* lines 91-98: the full, position-matched series of image and annotation paths
FullImages(imgPath) ==
    [k \in DOMAIN imgPath |-> <<imgPath[k][1], ImagePath(imgPath[k][2])>>]

FullAnnotations(imgPath, imgCls) ==
    [k \in DOMAIN imgPath |->
        <<imgPath[k][1], AnnotationPath(imgCls[k], ImgName(imgPath[k][2]))>>]

\* line 101
FilterCode(m) == IF m = "train" THEN TRAIN_CODE ELSE TEST_CODE

\* line 102: index[train_test_map[1] == filter_code]
ValidInds(index, trainTest, m) ==
    IF Len(trainTest) # Len(index)
    THEN Err("IndexError")
    ELSE Ok(MaskSelect(index, [k \in DOMAIN trainTest |->
                                   trainTest[k][2] = FilterCode(m)]))

\* np.array(Image.open(img_path)).shape
ArrayShape(file) ==
    IF file.ch = 1 THEN <<file.size, file.size>>
    ELSE <<file.size, file.size, file.ch>>

RECURSIVE RemoveGrayscaleDetached(_, _, _)
RemoveGrayscaleDetached(imgs, anns, files) ==
    IF imgs = <<>> THEN <<<<>>, <<>>>>
    ELSE LET rest == RemoveGrayscaleDetached(Tail(imgs), Tail(anns), files)
             gray == Len(ArrayShape(files[Head(imgs)])) = 2
         IN  <<<<Head(imgs)>> \o rest[1],
               (IF gray THEN <<>> ELSE <<Head(anns)>>) \o rest[2]>>

RECURSIVE RemoveGrayscaleReversed(_, _, _)
RemoveGrayscaleReversed(imgs, anns, files) ==
    IF imgs = <<>> THEN <<<<>>, <<>>>>
    ELSE LET rest == RemoveGrayscaleReversed(Tail(imgs), Tail(anns), files)
         IN  IF Len(ArrayShape(files[Head(imgs)])) = 2
             THEN rest
             ELSE <<rest[1] \o <<Head(imgs)>>, rest[2] \o <<Head(anns)>>>>

RECURSIVE RemoveGrayscale(_, _, _)
\* lines 107-114: the values of the two series, without the 2-D images
RemoveGrayscale(imgs, anns, files) ==
    IF imgs = <<>> THEN <<<<>>, <<>>>>
    ELSE LET rest == RemoveGrayscale(Tail(imgs), Tail(anns), files)
         IN  IF Len(ArrayShape(files[Head(imgs)])) = 2
             THEN rest
             ELSE <<<<Head(imgs)>> \o rest[1], <<Head(anns)>> \o rest[2]>>

\* The constructor's raise, leaving the fields assigned so far
Raised(name, imgs, anns) ==
    /\ cub' = "raised"
    /\ images' = imgs
    /\ text_annotations' = anns
    /\ filtered_images' = <<>>
    /\ filtered_annotations' = <<>>
    /\ result' = [op |-> "init", idx |-> 0, err |-> name, val |-> <<>>]

CUBInit ==
    /\ cub = "new"
    /\ IF ~root_is_dir THEN Raised("ValueError", <<>>, <<>>)
       ELSE
       LET index == Keys(img_path_map)
           cls == ImgClsMap(index, img_label_map, label_cls_map)
       IN
       IF cls.err # "" THEN Raised(cls.err, <<>>, <<>>)
       ELSE
       LET full_images == FullImages(img_path_map)
           full_annotations == FullAnnotations(img_path_map, cls.val)
           valid_inds == ValidInds(index, train_test_map, mode)
       IN
       IF valid_inds.err # "" THEN Raised(valid_inds.err, full_images, full_annotations)
       ELSE
       LET split_images == Loc(full_images, valid_inds.val)
           split_annotations == Loc(full_annotations, valid_inds.val)
       IN
       IF \E k \in DOMAIN split_images : ~image_files[split_images[k][2]].exists
       THEN Raised("FileNotFoundError", split_images, split_annotations)
       ELSE
       LET kept == RemoveGrayscale(Column(split_images), Column(split_annotations),
                                   image_files)
       IN
       /\ cub' = "built"
       /\ images' = split_images
       /\ text_annotations' = split_annotations
       /\ filtered_images' = kept[1]
       /\ filtered_annotations' = kept[2]
       /\ result' = [op |-> "init", idx |-> 0, err |-> "", val |-> <<>>]
    /\ UNCHANGED <<cubFiles, lmdbVars>>

\* lines 145-147
CUBLen ==
    /\ cub = "built"
    /\ result' = IF Len(filtered_images) = Len(filtered_annotations)
                 THEN [op |-> "len", idx |-> 0, err |-> "",
                       val |-> <<Len(filtered_images)>>]
                 ELSE [op |-> "len", idx |-> 0, err |-> "AssertionError", val |-> <<>>]
    /\ UNCHANGED <<cubFiles, cubFields, lmdbVars>>

(***************************************************************************)
(* CUBDataset.__getitem__                                                  *)
(***************************************************************************)
\* Image.open(img_path)
ImageOpen(path, file) == [kind |-> "pil", src |-> path, ch |-> file.ch, size |-> file.size]

\* self.transform(img): the configured transform turns the image into a tensor
Transform(tf, img) == IF tf = "none" THEN img ELSE [img EXCEPT !.kind = "tensor"]

\* T.Resize((128, 128))(img)
Resize(img) == [img EXCEPT !.size = LowRes]

Call(op, idx, err, val) == [op |-> op, idx |-> idx, err |-> err, val |-> val]

\* lines 116-128: the outcomes of one call (one per line random.choice may draw)
GetItemOutcomes(fimgs, fanns, idx) ==
    IF idx + 1 \notin DOMAIN fimgs \/ idx + 1 \notin DOMAIN fanns
    THEN {Call("getitem", idx, "IndexError", <<>>)}
    ELSE
    LET img_path == fimgs[idx + 1]
        annotation_path == fanns[idx + 1]
    IN
    IF ~image_files[img_path].exists
    THEN {Call("getitem", idx, "FileNotFoundError", <<>>)}
    ELSE
    LET img == Transform(transform, ImageOpen(img_path, image_files[img_path]))
        img_low_res == Resize(img)
    IN
    IF ~annotation_files[annotation_path].exists
    THEN {Call("getitem", idx, "FileNotFoundError", <<>>)}
    ELSE
    LET lines == annotation_files[annotation_path].lines
    IN
    IF lines = <<>>
    THEN {Call("getitem", idx, "IndexError", <<>>)}
    ELSE {Call("getitem", idx, "", <<img, img_low_res, lines[k]>>) : k \in DOMAIN lines}

CUBGetItemEvicting(idx) ==
    /\ cub = "built"
    /\ \E r \in GetItemOutcomes(filtered_images, filtered_annotations, idx) :
        /\ result' = r
        /\ IF r.err # "" /\ idx + 1 \in DOMAIN filtered_images
           THEN /\ filtered_images' =
                       SubSeq(filtered_images, 1, idx)
                       \o SubSeq(filtered_images, idx + 2, Len(filtered_images))
                /\ filtered_annotations' =
                       SubSeq(filtered_annotations, 1, idx)
                       \o SubSeq(filtered_annotations, idx + 2, Len(filtered_annotations))
           ELSE UNCHANGED <<filtered_images, filtered_annotations>>
    /\ UNCHANGED <<cubFiles, cub, images, text_annotations, lmdbVars>>

CUBGetItem(idx) ==
    /\ cub = "built"
    /\ \E r \in GetItemOutcomes(filtered_images, filtered_annotations, idx) :
        result' = r
    /\ UNCHANGED <<cubFiles, cubFields, lmdbVars>>

(***************************************************************************)
(* CUBDataset.collate_fn                                                   *)
(***************************************************************************)
max_length == 64

\* torch.stack(tensors, dim=0)
Stack(ts) ==
    IF ts = <<>> THEN Err("RuntimeError")
    ELSE IF \E k \in DOMAIN ts : ts[k].kind # "tensor" THEN Err("TypeError")
    ELSE IF \E j, k \in DOMAIN ts : ts[j].size # ts[k].size \/ ts[j].ch # ts[k].ch
         THEN Err("RuntimeError")
    ELSE Ok(ts)

Max(S) == CHOOSE m \in S : \A n \in S : n <= m

\* A caption line is its words followed by "\n"; the tokenizer drops the
\* whitespace, adds the special tokens, truncates and pads to the longest
Encode(line) ==
    LET words == SelectSeq(line, LAMBDA w : w # "\n")
        toks == <<"[CLS]">> \o words \o <<"[SEP]">>
    IN  IF Len(toks) <= max_length THEN toks
        ELSE SubSeq(toks, 1, max_length - 1) \o <<"[SEP]">>

Tokenizer(annotations) ==
    LET enc == [k \in DOMAIN annotations |-> Encode(annotations[k])]
        width == Max({Len(enc[k]) : k \in DOMAIN enc})
    IN  [k \in DOMAIN enc |->
            enc[k] \o [j \in 1..(width - Len(enc[k])) |-> "[PAD]"]]

\* lines 130-143
CollateFn(batch) ==
    IF batch = <<>> THEN Err("ValueError")
    ELSE
    LET imgs_low_res == [k \in DOMAIN batch |-> batch[k][1]]
        imgs == [k \in DOMAIN batch |-> batch[k][2]]
        annotations == [k \in DOMAIN batch |-> batch[k][3]]
        stacked_low_res == Stack(imgs_low_res)
        stacked == Stack(imgs)
    IN
    IF stacked_low_res.err # "" THEN stacked_low_res
    ELSE IF stacked.err # "" THEN stacked
    ELSE Ok(<<stacked_low_res.val, stacked.val, Tokenizer(annotations)>>)

\* The examples __getitem__ can return on the current corpus
Examples ==
    {r.val : r \in {o \in UNION {GetItemOutcomes(filtered_images, filtered_annotations, i) :
                                   i \in 0..(NumIds - 1)} : o.err = ""}}

Batches == UNION {[1..n -> Examples] : n \in 0..MaxBatch}

CUBCollate(batch) ==
    /\ cub = "built"
    /\ LET out == CollateFn(batch)
       IN  result' = Call("collate_fn", Len(batch), out.err,
                          IF out.err = "" THEN <<batch, out.val>> ELSE <<batch>>)
    /\ UNCHANGED <<cubFiles, cubFields, lmdbVars>>

(***************************************************************************)
(* LMDBDataset                                                             *)
(***************************************************************************)
Digit(d) == CASE d = 0 -> "0" [] d = 1 -> "1" [] d = 2 -> "2" [] d = 3 -> "3"
              [] d = 4 -> "4" [] d = 5 -> "5" [] d = 6 -> "6" [] d = 7 -> "7"
              [] d = 8 -> "8" [] d = 9 -> "9"

RECURSIVE StrNat(_)
StrNat(n) == IF n < 10 THEN <<Digit(n)>> ELSE StrNat(n \div 10) \o <<Digit(n % 10)>>

\* str(index)
Str(n) == IF n < 0 THEN <<"-">> \o StrNat(-n) ELSE StrNat(n)

IsDigit(c) == c \in {"0", "1", "2", "3", "4", "5", "6", "7", "8", "9"}

DigitValue(c) == CHOOSE d \in 0..9 : Digit(d) = c

RECURSIVE IntNat(_)
IntNat(ds) ==
    IF Len(ds) = 1 THEN DigitValue(ds[1])
    ELSE 10 * IntNat(SubSeq(ds, 1, Len(ds) - 1)) + DigitValue(ds[Len(ds)])

\* int(text)
Int_(text) ==
    IF text # <<>> /\ \A k \in DOMAIN text : IsDigit(text[k])
    THEN Ok(<<IntNat(text)>>)
    ELSE Err("ValueError")

LengthKey == <<"l", "e", "n", "g", "t", "h">>

\* txn.get(key): the stored bytes, or None
TxnGet(kv, key) == IF key \in DOMAIN kv THEN kv[key] ELSE [fmt |-> "none"]

\* pickle.loads(data)
PickleLoads(data) ==
    IF data.fmt = "none" THEN Err("TypeError")
    ELSE IF data.fmt # "pickle" THEN Err("UnpicklingError")
    ELSE Ok(<<data.row>>)

\* torch.from_numpy(array)
FromNumpy(array) == [kind |-> "tensor", data |-> array]

\* lines 33-47
LMDBInit ==
    /\ env = "none"
    /\ IF ~store.exists
       THEN /\ env' = "failed"
            /\ length' = 0
            /\ result' = Call("lmdb_init", 0, "Error", <<>>)
       ELSE LET data == TxnGet(store.kv, LengthKey)
                n == IF data.fmt = "utf8" THEN Int_(data.text)
                     ELSE IF data.fmt = "none" THEN Err("AttributeError")
                     ELSE Err("UnicodeDecodeError")
            IN  IF n.err # ""
                THEN /\ env' = "failed"
                     /\ length' = 0
                     /\ result' = Call("lmdb_init", 0, n.err, <<>>)
                ELSE /\ env' = "open"
                     /\ length' = n.val[1]
                     /\ result' = Call("lmdb_init", 0, "", <<>>)
    /\ UNCHANGED <<cubFiles, cubFields, store>>

\* lines 49-50
LMDBLen ==
    /\ env = "open"
    /\ result' = Call("lmdb_len", 0, "", <<length>>)
    /\ UNCHANGED <<cubFiles, cubFields, lmdbVars>>

LMDBRowOrDefault(kv, index) ==
    LET row == PickleLoads(TxnGet(kv, Str(index)))
    IN  IF row.err = "TypeError"
        THEN Ok(<<FromNumpy(0), FromNumpy(0), <<"file">>>>)
        ELSE IF row.err # "" THEN row
        ELSE Ok(<<FromNumpy(row.val[1].top), FromNumpy(row.val[1].bottom),
                  row.val[1].filename>>)

\* lines 53-58: the value of __getitem__(index)
LMDBRow(kv, index) ==
    LET row == PickleLoads(TxnGet(kv, Str(index)))
    IN  IF row.err # "" THEN row
        ELSE Ok(<<FromNumpy(row.val[1].top), FromNumpy(row.val[1].bottom),
                  row.val[1].filename>>)

LMDBGetItem(index) ==
    /\ env = "open"
    /\ LET out == LMDBRow(store.kv, index)
       IN  result' = Call("lmdb_getitem", index, out.err, out.val)
    /\ UNCHANGED <<cubFiles, cubFields, lmdbVars>>

(***************************************************************************)
(* Inputs: the contents of the root directory and of the store.            *)
(***************************************************************************)
NonEmpty(S) == {s \in S : s # <<>>}

\* images.txt: any non-empty list of distinct ids, in any row order
ImageTables ==
    {[k \in DOMAIN ks |-> <<ks[k], RelPath(ks[k])>>] : ks \in NonEmpty(DistinctSeqs(Ids))}

LabelOf(id) == (id % NumLabels) + 1

\* a table with one row per row of images.txt, in the same row order
AlignedSplit(imgPath, code) == [k \in DOMAIN imgPath |-> <<imgPath[k][1], code>>]

AlignedLabels(imgPath) == [k \in DOMAIN imgPath |-> <<imgPath[k][1], LabelOf(imgPath[k][1])>>]

AllClasses == [l \in Labels |-> <<l, ClassName(l)>>]

Gray == [exists |-> TRUE, ch |-> 1, size |-> FullRes]
RGB == [exists |-> TRUE, ch |-> 3, size |-> FullRes]
RGBSmall == [exists |-> TRUE, ch |-> 3, size |-> LowRes]
RGBA == [exists |-> TRUE, ch |-> 4, size |-> FullRes]
NoImage == [exists |-> FALSE, ch |-> 0, size |-> 0]

BlankLine == <<"\n">>
TextLine(w) == <<w, "\n">>
Lines == {BlankLine, TextLine("bird")}

NoFile == [exists |-> FALSE, lines |-> <<>>]
File(ls) == [exists |-> TRUE, lines |-> ls]
AnnotationContents ==
    {NoFile} \cup {File(ls) : ls \in UNION {[1..n -> Lines] : n \in 0..MaxLines}}

OneLineFiles == [p \in AllAnnotationPaths |-> File(<<TextLine("bird")>>)]

NoStore == [exists |-> FALSE, kv |-> <<>>]

CUBStart ==
    /\ cub = "new"
    /\ images = <<>>
    /\ text_annotations = <<>>
    /\ filtered_images = <<>>
    /\ filtered_annotations = <<>>
    /\ result = Call("none", 0, "", <<>>)

LMDBIdle ==
    /\ store = NoStore
    /\ env = "none"
    /\ length = 0

\* Any images.txt and train_test_split.txt, any mode, gray and colour images
InitSplit ==
    /\ root_is_dir = TRUE
    /\ img_path_map \in ImageTables
    /\ train_test_map \in NonEmpty(Tables(Ids, {TRAIN_CODE, TEST_CODE}))
    /\ img_label_map = AlignedLabels(img_path_map)
    /\ label_cls_map = AllClasses
    /\ image_files \in [AllImagePaths -> {Gray, RGB}]
    /\ annotation_files = OneLineFiles
    /\ mode \in {"train", "val"}
    /\ transform = "to_tensor"
    /\ CUBStart
    /\ LMDBIdle

\* Any images.txt, image_class_labels.txt and classes.txt; the root and the
\* image files may be missing
InitClass ==
    /\ root_is_dir \in BOOLEAN
    /\ img_path_map \in ImageTables
    /\ train_test_map = AlignedSplit(img_path_map, TEST_CODE)
    /\ img_label_map \in NonEmpty(Tables(Ids, Labels))
    /\ label_cls_map \in {[k \in DOMAIN ls |-> <<ls[k], ClassName(ls[k])>>] :
                             ls \in NonEmpty(DistinctSeqs(Labels))}
    /\ image_files \in [AllImagePaths -> {RGB, NoImage}]
    /\ annotation_files = OneLineFiles
    /\ mode = "val"
    /\ transform = "to_tensor"
    /\ CUBStart
    /\ LMDBIdle

\* the annotation file of each id of an aligned corpus, drawn from a set
AnnotationFiles(contents) ==
    {[p \in AllAnnotationPaths |->
         IF \E i \in Ids : p = AnnotationPath(ClassName(LabelOf(i)), ImgName(RelPath(i)))
         THEN f[p.file[1]] ELSE NoFile] : f \in [Ids -> contents]}

\* Aligned tables; any image files, absent, empty and one-line annotation
\* files, any transform
InitAccess ==
    /\ root_is_dir = TRUE
    /\ img_path_map = [i \in Ids |-> <<i, RelPath(i)>>]
    /\ train_test_map = AlignedSplit(img_path_map, TEST_CODE)
    /\ img_label_map = AlignedLabels(img_path_map)
    /\ label_cls_map = AllClasses
    /\ image_files \in [AllImagePaths -> {Gray, RGB, RGBSmall, RGBA}]
    /\ annotation_files \in
          AnnotationFiles({NoFile, File(<<>>), File(<<TextLine("bird")>>)})
    /\ mode = "val"
    /\ transform \in {"none", "to_tensor"}
    /\ CUBStart
    /\ LMDBIdle

\* Aligned tables and colour images; any annotation files
InitCaption ==
    /\ root_is_dir = TRUE
    /\ img_path_map = [i \in Ids |-> <<i, RelPath(i)>>]
    /\ train_test_map = AlignedSplit(img_path_map, TEST_CODE)
    /\ img_label_map = AlignedLabels(img_path_map)
    /\ label_cls_map = AllClasses
    /\ image_files = [p \in AllImagePaths |-> RGB]
    /\ annotation_files \in AnnotationFiles(AnnotationContents)
    /\ mode = "val"
    /\ transform = "to_tensor"
    /\ CUBStart
    /\ LMDBIdle

Row(i) == [fmt |-> "pickle", row |-> [top |-> i, bottom |-> i + 1, filename |-> <<"file", i>>]]
Junk == [fmt |-> "junk"]
Absent == [fmt |-> "none"]
Utf8(text) == [fmt |-> "utf8", text |-> text]

Stores ==
    {NoStore} \cup
    {[exists |-> TRUE, kv |-> kv] :
        kv \in UNION {
            {[k \in {Str(i) : i \in present} \cup lk |->
                 IF k = LengthKey THEN len
                 ELSE LET i == CHOOSE j \in present : Str(j) = k
                      IN  IF data[i] = "row" THEN Row(i) ELSE Junk] :
               data \in [present -> {"row", "junk"}],
               len \in {Utf8(Str(n)) : n \in 0..(MaxIndex + 1)} \cup {Utf8(<<"x">>), Junk},
               lk \in {{}, {LengthKey}}} :
            present \in SUBSET (0..MaxIndex)}}

InitLMDB ==
    /\ root_is_dir = FALSE
    /\ img_path_map = <<>>
    /\ train_test_map = <<>>
    /\ img_label_map = <<>>
    /\ label_cls_map = <<>>
    /\ image_files = [p \in AllImagePaths |-> NoImage]
    /\ annotation_files = [p \in AllAnnotationPaths |-> NoFile]
    /\ mode = "val"
    /\ transform = "none"
    /\ CUBStart
    /\ store \in Stores
    /\ env = "none"
    /\ length = 0

(***************************************************************************)
(* Specifications.                                                         *)
(***************************************************************************)
CUBNext ==
    \/ CUBInit
    \/ CUBLen
    \/ \E idx \in 0..NumIds : CUBGetItem(idx)
    \/ \E batch \in Batches : CUBCollate(batch)

LMDBNext ==
    \/ LMDBInit
    \/ LMDBLen
    \/ \E index \in -1..(MaxIndex + 1) : LMDBGetItem(index)

Spec == InitAccess /\ [][CUBNext]_vars

CaptionNext ==
    \/ CUBInit
    \/ CUBLen
    \/ \E idx \in 0..NumIds : CUBGetItem(idx)

SpecCaption == InitCaption /\ [][CaptionNext]_vars

SpecSplit == InitSplit /\ [][CUBNext]_vars

SpecClass == InitClass /\ [][CUBNext]_vars

SpecLMDB == InitLMDB /\ [][LMDBNext]_vars

(***************************************************************************)
(* Properties.                                                             *)
(***************************************************************************)
Is2D(path) == Len(ArrayShape(image_files[path])) = 2

Zip(a, b) == [k \in DOMAIN a |-> <<a[k], b[k]>>]

\* the row of images.txt an image path was built from
RowOfImage(path) == CHOOSE p \in DOMAIN img_path_map : ImagePath(img_path_map[p][2]) = path

\* the ids of images.txt whose image path is the given one
IdsOfImage(path) ==
    {img_path_map[p][1] : p \in {q \in DOMAIN img_path_map :
                                    ImagePath(img_path_map[q][2]) = path}}

\* C1: after every construction that returns, filtered_images and
\* filtered_annotations have the same length, position k of both comes from
\* one id (one row of the split-restricted series, the annotation file named
\* after the image), and the assertion of __len__ never fails, whatever
\* __getitem__, collate_fn and __len__ calls follow.
C1_AlignedLengths ==
    /\ result.err # "AssertionError"
    /\ cub = "built" =>
        /\ Len(filtered_images) = Len(filtered_annotations)
        /\ \A k \in DOMAIN filtered_images :
              /\ k \in DOMAIN filtered_annotations
              /\ filtered_annotations[k].file = <<ImgName(filtered_images[k].rel), "txt">>
              /\ \E p \in DOMAIN images :
                    /\ images[p][1] = text_annotations[p][1]
                    /\ images[p][2] = filtered_images[k]
                    /\ text_annotations[p][2] = filtered_annotations[k]

C1_Witness ==
    /\ cub = "built"
    /\ result.op = "len"
    /\ result.err = ""
    /\ Len(filtered_images) >= 1
    /\ Len(filtered_images) < Len(images)

\* C2: an id contributes a path to filtered_images only if the split table
\* records the requested code for that same id, whatever the row order of
\* train_test_split.txt.
C2_SplitJoinedById ==
    (cub = "built" /\ KeySet(img_path_map) = KeySet(train_test_map)) =>
        \A k \in DOMAIN filtered_images :
            \A id \in IdsOfImage(filtered_images[k]) :
                \E q \in DOMAIN train_test_map :
                    /\ train_test_map[q][1] = id
                    /\ train_test_map[q][2] = FilterCode(mode)

\* C3: the second pass keeps exactly the split-restricted (image, annotation)
\* pairs whose decoded array is not two-dimensional, in the order of the
\* split-restricted series, which is the row order of images.txt.
C3_OrderPreservingFilter ==
    cub = "built" =>
        /\ Len(filtered_images) = Len(filtered_annotations)
        /\ Zip(filtered_images, filtered_annotations)
             = SelectSeq(Zip(Column(images), Column(text_annotations)),
                         LAMBDA pair : ~Is2D(pair[1]))
        /\ \A j, k \in DOMAIN filtered_images :
              j < k => RowOfImage(filtered_images[j]) < RowOfImage(filtered_images[k])

C3_Witness ==
    /\ cub = "built"
    /\ Len(filtered_images) >= 1
    /\ Len(filtered_images) < Len(images)
    /\ RowOfImage(filtered_images[1]) > 1

\* C4: no path of filtered_images refers to an image whose channel count
\* differs from 3.
C4_ThreeChannelsOnly ==
    cub = "built" =>
        \A k \in DOMAIN filtered_images : image_files[filtered_images[k]].ch = 3

\* an id of one of images.txt, train_test_split.txt is absent from the other
JoinMismatch == KeySet(img_path_map) # KeySet(train_test_map)

\* C5: when an id is present in one table and absent from another,
\* construction still completes and returns a corpus.
C5_MismatchSkipped ==
    (cub # "new" /\ JoinMismatch
       /\ \A p \in AllImagePaths : image_files[p].exists) => cub = "built"

\* C6: a caption returned by __getitem__ is a non-empty line of the
\* annotation file of that index, never a blank line.
C6_CaptionNonEmpty ==
    (cub = "built" /\ result.op = "getitem" /\ result.err = "") =>
        /\ result.val[3] \in Range(annotation_files[filtered_annotations[result.idx + 1]].lines)
        /\ result.val[3] # BlankLine

KeyPresent(index) == Str(index) \in DOMAIN store.kv

\* what the stored length counter decodes to
StoredLength == Int_(TxnGet(store.kv, LengthKey).text).val[1]

\* C7: __getitem__(index) ends in an error and returns no record whenever
\* the store has no key str(index), also for 0 <= index < len; the call
\* leaves the handle, the cached length and the store as they were, so
\* __len__ and __getitem__ on present keys answer from the store as before.
C7_MissingKeyFails ==
    [][/\ (result'.op = "lmdb_getitem" /\ ~KeyPresent(result'.idx)) =>
             /\ result'.err # ""
             /\ result'.val = <<>>
       /\ env = "open" => UNCHANGED lmdbVars
       /\ (env = "open" /\ result'.op = "lmdb_len") =>
             /\ result'.err = ""
             /\ result'.val = <<StoredLength>>
       /\ (env = "open" /\ result'.op = "lmdb_getitem" /\ KeyPresent(result'.idx)
             /\ store.kv[Str(result'.idx)].fmt = "pickle") =>
             /\ result'.err = ""
             /\ result'.val[3] = store.kv[Str(result'.idx)].row.filename
      ]_vars

C7_Witness ==
    /\ env = "open"
    /\ result.op = "lmdb_getitem"
    /\ result.err = "TypeError"
    /\ 0 <= result.idx
    /\ result.idx < length
    /\ \E j \in 0..MaxIndex : KeyPresent(j)

\* C8: collate_fn on N examples (image, low_res_image, caption) returns
\* (low_res_images, images, tokenized_captions) where low_res_images stacks
\* the examples' low_res_image, images stacks their image, both of leading
\* dimension N and in the order of the input.
C8_CollateFields ==
    (result.op = "collate_fn" /\ result.err = "") =>
        LET batch == result.val[1]
            out == result.val[2]
        IN  /\ Len(out[1]) = Len(batch)
            /\ Len(out[2]) = Len(batch)
            /\ Len(out[3]) = Len(batch)
            /\ \A k \in DOMAIN batch :
                  /\ out[1][k] = batch[k][2]
                  /\ out[2][k] = batch[k][1]

\* the class name the tables give an id when joined by id
ClassNamesById(id) ==
    {label_cls_map[c][2] :
        c \in {d \in DOMAIN label_cls_map :
                 \E q \in DOMAIN img_label_map :
                    /\ img_label_map[q][1] = id
                    /\ img_label_map[q][2] = label_cls_map[d][1]}}

\* C9: the annotation path paired with an id is
\* text_c10/<class_name>/<image_basename>.txt for the class that
\* image_class_labels.txt records for that same id, whatever the row order
\* of image_class_labels.txt.
C9_ClassJoinedById ==
    (cub = "built" /\ KeySet(img_path_map) = KeySet(img_label_map)) =>
        \A k \in DOMAIN text_annotations :
            \E name \in ClassNamesById(text_annotations[k][1]) :
                text_annotations[k][2]
                  = AnnotationPath(name, ImgName(images[k][2].rel))

\* index j is in range, its image opens and its annotation file has a line
Accessible(j) ==
    /\ j + 1 \in DOMAIN filtered_images
    /\ image_files[filtered_images[j + 1]].exists
    /\ annotation_files[filtered_annotations[j + 1]].exists
    /\ annotation_files[filtered_annotations[j + 1]].lines # <<>>

\* C10: after construction every __getitem__, collate_fn and __len__ call,
\* failed or not, leaves filtered_images and filtered_annotations (and so
\* __len__) unchanged, and __getitem__(j) on an accessible j succeeds
\* whatever call came before it.
C10_AccessFrame ==
    [][cub = "built" =>
          /\ cub' = "built"
          /\ filtered_images' = filtered_images
          /\ filtered_annotations' = filtered_annotations
          /\ (result'.op = "getitem" /\ Accessible(result'.idx)) => result'.err = ""
          /\ result'.op = "len" => result'.val = <<Len(filtered_images)>>
      ]_vars

C10_Witness ==
    /\ cub = "built"
    /\ result.op = "getitem"
    /\ result.err # ""
    /\ result.idx + 1 \in DOMAIN filtered_images
    /\ \E j \in 0..(NumIds - 1) : j # result.idx /\ Accessible(j)

====
